---- MODULE Spec2Model ----
(***************************************************************************)
(* Model of the GPU sizer's estimation engine                              *)
(* (GPU-sizer/v2/better_llm_sizer/calculator.py) and of its two callers.   *)
(*                                                                         *)
(* Python's int/float values are modelled by exact rationals.  TLC's       *)
(* integers are 32 bits wide and the engine multiplies by 1e9 * 1000 when  *)
(* the bandwidth floor applies, so numerators and denominators are         *)
(* arbitrary-precision naturals: little-endian sequences of base-10000     *)
(* limbs without leading zero limbs (<<>> is 0).                           *)
(***************************************************************************)
EXTENDS Integers, Sequences, FiniteSets, TLC

----------------------------------------------------------------------------
(* Arbitrary-precision naturals                                            *)

Base == 10 ^ 4

RECURSIVE NFromInt(_)
NFromInt(i) == IF i = 0 THEN <<>> ELSE <<i % Base>> \o NFromInt(i \div Base)

RECURSIVE NStrip(_)
NStrip(a) ==
    IF a = <<>> THEN <<>>
    ELSE IF a[Len(a)] = 0 THEN NStrip(SubSeq(a, 1, Len(a) - 1))
    ELSE a

RECURSIVE NAddC(_, _, _)
NAddC(a, b, c) ==
    IF a = <<>> /\ b = <<>> THEN (IF c = 0 THEN <<>> ELSE <<c>>)
    ELSE LET x == IF a = <<>> THEN 0 ELSE Head(a)
             y == IF b = <<>> THEN 0 ELSE Head(b)
             s == x + y + c
         IN  <<s % Base>> \o NAddC(IF a = <<>> THEN <<>> ELSE Tail(a),
                                   IF b = <<>> THEN <<>> ELSE Tail(b),
                                   s \div Base)

NAdd(a, b) == NAddC(a, b, 0)

\* a - b for a >= b
RECURSIVE NSubB(_, _, _)
NSubB(a, b, c) ==
    IF a = <<>> THEN <<>>
    ELSE LET y == IF b = <<>> THEN 0 ELSE Head(b)
             s == Head(a) - y - c
         IN  <<s % Base>> \o NSubB(Tail(a),
                                   IF b = <<>> THEN <<>> ELSE Tail(b),
                                   IF s < 0 THEN 1 ELSE 0)

NSub(a, b) == NStrip(NSubB(a, b, 0))

\* -1, 0, 1 as a < b, a = b, a > b
RECURSIVE NCmpFrom(_, _, _)
NCmpFrom(a, b, i) ==
    IF i = 0 THEN 0
    ELSE IF a[i] < b[i] THEN -1
    ELSE IF a[i] > b[i] THEN 1
    ELSE NCmpFrom(a, b, i - 1)

NCmp(a, b) ==
    IF Len(a) < Len(b) THEN -1
    ELSE IF Len(a) > Len(b) THEN 1
    ELSE NCmpFrom(a, b, Len(a))

\* a * k + c for one limb k
RECURSIVE NScaleC(_, _, _)
NScaleC(a, k, c) ==
    IF a = <<>> THEN (IF c = 0 THEN <<>> ELSE <<c>>)
    ELSE LET s == Head(a) * k + c
         IN  <<s % Base>> \o NScaleC(Tail(a), k, s \div Base)

NShift(a) == IF a = <<>> THEN <<>> ELSE <<0>> \o a

RECURSIVE NMul(_, _)
NMul(a, b) ==
    IF a = <<>> \/ b = <<>> THEN <<>>
    ELSE IF Len(a) > Len(b) THEN NMul(b, a)
    ELSE IF Head(a) = 0 THEN NShift(NMul(Tail(a), b))
    ELSE NAdd(NScaleC(b, Head(a), 0), NShift(NMul(Tail(a), b)))

\* floor(n / d) for d > 0, one hexadecimal digit of the quotient per level:
\* n div d = 16 * (n div 16d) + k, with k * d <= n - 16 * (n div 16d) * d < (k + 1) * d
RECURSIVE NDiv(_, _)
NDiv(n, d) ==
    IF NCmp(n, d) < 0 THEN <<>>
    ELSE LET h == NDiv(n, NScaleC(d, 16, 0))
             r == IF h = <<>> THEN n ELSE NSub(n, NMul(NScaleC(h, 16, 0), d))
             k == CHOOSE k \in 0..15 :
                     /\ k = 0 \/ NCmp(NScaleC(d, k, 0), r) <= 0
                     /\ NCmp(NScaleC(d, k + 1, 0), r) > 0
         IN  NScaleC(h, 16, k)

----------------------------------------------------------------------------
(* Exact rationals: [s |-> sign, n |-> |numerator|, d |-> denominator > 0]  *)

RZero == [s |-> 0, n |-> <<>>, d |-> <<1>>]

Sgn(i) == IF i < 0 THEN -1 ELSE IF i > 0 THEN 1 ELSE 0
Abs(i) == IF i < 0 THEN -i ELSE i

\* the rational a / b of two integers, b > 0
Frac(a, b) == IF a = 0 THEN RZero
              ELSE [s |-> Sgn(a), n |-> NFromInt(Abs(a)), d |-> NFromInt(b)]

RInt(i) == Frac(i, 1)

RMul(x, y) ==
    IF x.s = 0 \/ y.s = 0 THEN RZero
    ELSE [s |-> x.s * y.s, n |-> NMul(x.n, y.n), d |-> NMul(x.d, y.d)]

\* x / y for y # 0
RDiv(x, y) ==
    IF x.s = 0 THEN RZero
    ELSE [s |-> x.s * y.s, n |-> NMul(x.n, y.d), d |-> NMul(x.d, y.n)]

RNeg(x) == [x EXCEPT !.s = -x.s]

RCmpAbs(x, y) == NCmp(NMul(x.n, y.d), NMul(y.n, x.d))

\* -1, 0, 1 as x < y, x = y, x > y
RCmp(x, y) ==
    IF x.s # y.s THEN (IF x.s < y.s THEN -1 ELSE 1)
    ELSE IF x.s = 0 THEN 0
    ELSE x.s * RCmpAbs(x, y)

RLt(x, y) == RCmp(x, y) < 0
RLe(x, y) == RCmp(x, y) <= 0
REq(x, y) == RCmp(x, y) = 0

RAdd(x, y) ==
    IF x.s = 0 THEN y
    ELSE IF y.s = 0 THEN x
    ELSE LET a == NMul(x.n, y.d)
             b == NMul(y.n, x.d)
             d == NMul(x.d, y.d)
             c == NCmp(a, b)
         IN  IF x.s = y.s THEN [s |-> x.s, n |-> NAdd(a, b), d |-> d]
             ELSE IF c = 0 THEN RZero
             ELSE IF c > 0 THEN [s |-> x.s, n |-> NSub(a, b), d |-> d]
             ELSE [s |-> y.s, n |-> NSub(b, a), d |-> d]

RSub(x, y) == RAdd(x, RNeg(y))

RMax(x, y) == IF RLt(x, y) THEN y ELSE x

\* floor of a rational x >= 0, as an arbitrary-precision natural
RFloor(x) == IF x.s = 0 THEN <<>> ELSE NDiv(x.n, x.d)

\* a natural as a rational
RNat(a) == IF a = <<>> THEN RZero ELSE [s |-> 1, n |-> a, d |-> <<1>>]

----------------------------------------------------------------------------
(* Descriptors (specs.py) and the engine (calculator.py)                   *)

BYTES_IN_GiB == 1073741824

\* ModelSpec: the fields the engine and its callers read
ModelSpec(pb, d_model, n_heads, n_kv_heads, n_layers) ==
    [params_billion |-> pb, d_model |-> d_model, n_heads |-> n_heads,
     n_kv_heads |-> n_kv_heads, n_layers |-> n_layers]

GPUSpec(fp16_tflops, memory_gb, memory_bandwidth_gbps) ==
    [fp16_tflops |-> fp16_tflops, memory_gb |-> memory_gb,
     memory_bandwidth_gbps |-> memory_bandwidth_gbps]

PrecisionSpec(weight_bytes, kv_bytes) ==
    [weight_bytes |-> weight_bytes, kv_bytes |-> kv_bytes]

\* PerformanceCalculator.__init__
PerformanceCalculator(num_gpu, precision) ==
    [num_gpu |-> num_gpu, precision |-> precision]

\* The outcome of a call: a returned value, or ZeroDivisionError raised
Ret(v) == [raised |-> FALSE, val |-> v]
Raise == [raised |-> TRUE, val |-> "ZeroDivisionError"]

\* A Union[float, str] field of PerformanceMetrics: a number or "OOM"
Num(v) == [oom |-> FALSE, v |-> v]
OOM == [oom |-> TRUE, v |-> RZero]

PerformanceMetrics(kv, pre, tpot, ttft, e2e, thr) ==
    [kv_cache_tokens |-> kv, prefill_time_per_token_ms |-> pre, tpot_ms |-> tpot,
     ttft_s |-> ttft, e2e_latency_s |-> e2e, throughput_tokens_per_s |-> thr]

\* Python's max(a, b) on ints
Max(a, b) == IF b > a THEN b ELSE a

\* the 1e-9 floor of tpot_ms
BW_FLOOR == Frac(1, 1000000000)

\* kv_cache_size_per_token_gib dividing by the KV element width
kv_cache_size_per_token_gib_per_kv_byte(self, model) ==
    IF model.n_heads = 0 \/ self.precision.kv_bytes.s = 0 THEN Raise
    ELSE LET d_head == RDiv(RInt(model.d_model), RInt(model.n_heads))
         IN  Ret(RDiv(RDiv(RMul(RInt(2 * model.n_layers * model.n_kv_heads), d_head),
                           self.precision.kv_bytes),
                      RInt(BYTES_IN_GiB)))

\* kv_cache_size_per_token_gib counting the query heads instead of the KV heads
kv_cache_size_per_token_gib_query_heads(self, model) ==
    IF model.n_heads = 0 THEN Raise
    ELSE LET d_head == RDiv(RInt(model.d_model), RInt(model.n_heads))
         IN  Ret(RDiv(RMul(RMul(RInt(2 * model.n_layers * model.n_heads), d_head),
                           self.precision.kv_bytes),
                      RInt(BYTES_IN_GiB)))

kv_cache_size_per_token_gib(self, model) ==
    IF model.n_heads = 0 THEN Raise
    ELSE LET d_head == RDiv(RInt(model.d_model), RInt(model.n_heads))
         IN  Ret(RDiv(RMul(RMul(RInt(2 * model.n_layers * model.n_kv_heads), d_head),
                           self.precision.kv_bytes),
                      RInt(BYTES_IN_GiB)))

\* weights_memory_gb taking the KV element width for the weight width
weights_memory_gb_kv_width(self, model) ==
    LET bytes_per_billion_params_gb == self.precision.kv_bytes
    IN  Ret(RMul(model.params_billion, bytes_per_billion_params_gb))

weights_memory_gb(self, model) ==
    LET bytes_per_billion_params_gb == self.precision.weight_bytes
    IN  Ret(RMul(model.params_billion, bytes_per_billion_params_gb))

\* total_memory_footprint_gb converting the cache from GiB to GB
total_memory_footprint_gb_converted(self, model, n_concurrent, context_window) ==
    LET kv_per_token_gib == kv_cache_size_per_token_gib(self, model)
    IN  IF kv_per_token_gib.raised THEN Raise
        ELSE LET kv_total_gib == RMul(RMul(kv_per_token_gib.val, RInt(context_window)),
                                      RInt(n_concurrent))
                 kv_total_gb == RMul(kv_total_gib, Frac(BYTES_IN_GiB, 10 ^ 9))
             IN  Ret(RAdd(kv_total_gb, weights_memory_gb(self, model).val))

total_memory_footprint_gb(self, model, n_concurrent, context_window) ==
    LET kv_per_token_gib == kv_cache_size_per_token_gib(self, model)
    IN  IF kv_per_token_gib.raised THEN Raise
        ELSE LET kv_total_gib == RMul(RMul(kv_per_token_gib.val, RInt(context_window)),
                                      RInt(n_concurrent))
             IN  Ret(RAdd(kv_total_gib, weights_memory_gb(self, model).val))

\* max_kv_tokens that does not take the weights off the device memory
max_kv_tokens_ignores_weights(self, gpu, model) ==
    LET kv_per_token_gib == kv_cache_size_per_token_gib(self, model)
    IN  IF kv_per_token_gib.raised THEN Raise
        ELSE IF RLe(kv_per_token_gib.val, RZero) THEN Ret(<<>>)
        ELSE LET usable_gb == RMax(RZero, RInt(self.num_gpu * gpu.memory_gb))
             IN  Ret(RFloor(RMax(RZero, RDiv(usable_gb, kv_per_token_gib.val))))

\* max_kv_tokens that rounds to the nearest integer instead of truncating
max_kv_tokens_rounds(self, gpu, model) ==
    LET kv_per_token_gib == kv_cache_size_per_token_gib(self, model)
    IN  IF kv_per_token_gib.raised THEN Raise
        ELSE IF RLe(kv_per_token_gib.val, RZero) THEN Ret(<<>>)
        ELSE LET total_mem_gb == RInt(self.num_gpu * gpu.memory_gb)
                 usable_gb == RMax(RZero, RSub(total_mem_gb, weights_memory_gb(self, model).val))
             IN  Ret(RFloor(RAdd(RMax(RZero, RDiv(usable_gb, kv_per_token_gib.val)),
                                 Frac(1, 2))))

max_kv_tokens(self, gpu, model) ==
    LET kv_per_token_gib == kv_cache_size_per_token_gib(self, model)
    IN  IF kv_per_token_gib.raised THEN Raise
        ELSE IF RLe(kv_per_token_gib.val, RZero) THEN Ret(<<>>)
        ELSE LET total_mem_gb == RInt(self.num_gpu * gpu.memory_gb)
                 usable_gb == RMax(RZero, RSub(total_mem_gb, weights_memory_gb(self, model).val))
             IN  Ret(RFloor(RMax(RZero, RDiv(usable_gb, kv_per_token_gib.val))))

\* fits_memory comparing the cache alone with the device memory
fits_memory_cache_only(self, gpu, model, n_concurrent, context_window) ==
    LET total == total_memory_footprint_gb(self, model, n_concurrent, context_window)
    IN  IF total.raised THEN Raise
        ELSE Ret(RLe(RSub(total.val, weights_memory_gb(self, model).val),
                     RInt(self.num_gpu * gpu.memory_gb)))

\* fits_memory with a strict comparison
fits_memory_strict(self, gpu, model, n_concurrent, context_window) ==
    LET total == total_memory_footprint_gb(self, model, n_concurrent, context_window)
    IN  IF total.raised THEN Raise
        ELSE Ret(RLt(total.val, RInt(self.num_gpu * gpu.memory_gb)))

fits_memory(self, gpu, model, n_concurrent, context_window) ==
    LET total == total_memory_footprint_gb(self, model, n_concurrent, context_window)
    IN  IF total.raised THEN Raise
        ELSE Ret(RLe(total.val, RInt(self.num_gpu * gpu.memory_gb)))

\* prefill_time_per_token_ms that does not shard over the devices
prefill_time_per_token_ms_unsharded(self, model, gpu) ==
    IF gpu.fp16_tflops.s = 0 THEN Raise
    ELSE Ret(RDiv(RMul(RInt(2), model.params_billion), gpu.fp16_tflops))

\* prefill_time_per_token_ms dividing by num_gpu itself
prefill_time_per_token_ms_unguarded(self, model, gpu) ==
    IF self.num_gpu = 0 \/ gpu.fp16_tflops.s = 0 THEN Raise
    ELSE Ret(RDiv(RDiv(RMul(RInt(2), model.params_billion), RInt(self.num_gpu)),
                  gpu.fp16_tflops))

prefill_time_per_token_ms(self, model, gpu) ==
    IF gpu.fp16_tflops.s = 0 THEN Raise
    ELSE Ret(RDiv(RDiv(RMul(RInt(2), model.params_billion), RInt(Max(1, self.num_gpu))),
                  gpu.fp16_tflops))

\* tpot_ms dividing by the bandwidth itself
tpot_ms_unfloored(self, model, gpu) ==
    IF gpu.memory_bandwidth_gbps = 0 THEN Raise
    ELSE Ret(RMul(RDiv(RDiv(RMul(RInt(2), model.params_billion),
                            RInt(Max(1, self.num_gpu))),
                       RInt(gpu.memory_bandwidth_gbps)),
                  RInt(1000)))

\* tpot_ms reading the configured bytes per weight
tpot_ms_weight_bytes(self, model, gpu) ==
    Ret(RMul(RDiv(RDiv(RMul(self.precision.weight_bytes, model.params_billion),
                       RInt(Max(1, self.num_gpu))),
                  RMax(BW_FLOOR, RInt(gpu.memory_bandwidth_gbps))),
             RInt(1000)))

\* tpot_ms left in seconds
tpot_ms_in_seconds(self, model, gpu) ==
    Ret(RDiv(RDiv(RMul(RInt(2), model.params_billion), RInt(Max(1, self.num_gpu))),
             RMax(BW_FLOOR, RInt(gpu.memory_bandwidth_gbps))))

tpot_ms(self, model, gpu) ==
    Ret(RMul(RDiv(RDiv(RMul(RInt(2), model.params_billion), RInt(Max(1, self.num_gpu))),
                  RMax(BW_FLOOR, RInt(gpu.memory_bandwidth_gbps))),
             RInt(1000)))

\* e2e_latency_s charging the prefill once per response token
e2e_latency_s_prefill_per_response(prefill_ms, tpot, prompt_tokens, response_tokens) ==
    RDiv(RMul(RInt(response_tokens), RAdd(RMul(RInt(prompt_tokens), prefill_ms), tpot)),
         RInt(1000))

e2e_latency_s(prefill_ms, tpot, prompt_tokens, response_tokens) ==
    RDiv(RAdd(RMul(RInt(prompt_tokens), prefill_ms), RMul(RInt(response_tokens), tpot)),
         RInt(1000))

\* ttft_s without the one decode step
ttft_s_without_decode(prefill_ms, tpot, prompt_tokens) ==
    RDiv(RMul(RInt(prompt_tokens), prefill_ms), RInt(1000))

ttft_s(prefill_ms, tpot, prompt_tokens) ==
    RDiv(RAdd(RMul(RInt(prompt_tokens), prefill_ms), tpot), RInt(1000))

\* metrics_record testing the prefill time alone
metrics_record_prefill_only(kv_tokens, prefill_ms, tpot, prompt_tokens, response_tokens) ==
    IF RLt(prefill_ms, RZero)
    THEN PerformanceMetrics(kv_tokens, OOM, OOM, OOM, OOM, OOM)
    ELSE LET ttft == ttft_s(prefill_ms, tpot, prompt_tokens)
             e2e_s == e2e_latency_s(prefill_ms, tpot, prompt_tokens, response_tokens)
             thr == IF RLt(RZero, e2e_s) THEN Num(RDiv(RInt(response_tokens), e2e_s))
                    ELSE OOM
         IN  PerformanceMetrics(kv_tokens, Num(prefill_ms), Num(tpot), Num(ttft),
                                Num(e2e_s), thr)

\* metrics_record answering the sentinel in every field where the latency is
\* not positive
metrics_record_all_or_nothing(kv_tokens, prefill_ms, tpot, prompt_tokens, response_tokens) ==
    LET e2e_s == e2e_latency_s(prefill_ms, tpot, prompt_tokens, response_tokens)
    IN  IF RLt(prefill_ms, RZero) \/ RLt(tpot, RZero) \/ RLe(e2e_s, RZero)
        THEN PerformanceMetrics(kv_tokens, OOM, OOM, OOM, OOM, OOM)
        ELSE PerformanceMetrics(kv_tokens, Num(prefill_ms), Num(tpot),
                                Num(ttft_s(prefill_ms, tpot, prompt_tokens)), Num(e2e_s),
                                Num(RDiv(RInt(response_tokens), e2e_s)))

\* metrics_record answering a throughput of 0 where the latency is not positive
metrics_record_zero_throughput(kv_tokens, prefill_ms, tpot, prompt_tokens, response_tokens) ==
    IF RLt(prefill_ms, RZero) \/ RLt(tpot, RZero)
    THEN PerformanceMetrics(kv_tokens, OOM, OOM, OOM, OOM, OOM)
    ELSE LET ttft == ttft_s(prefill_ms, tpot, prompt_tokens)
             e2e_s == e2e_latency_s(prefill_ms, tpot, prompt_tokens, response_tokens)
             thr == IF RLt(RZero, e2e_s) THEN Num(RDiv(RInt(response_tokens), e2e_s))
                    ELSE Num(RZero)
         IN  PerformanceMetrics(kv_tokens, Num(prefill_ms), Num(tpot), Num(ttft),
                                Num(e2e_s), thr)

\* compute_metrics from line 92 on, given the three values of lines 88-90
metrics_record(kv_tokens, prefill_ms, tpot, prompt_tokens, response_tokens) ==
    IF RLt(prefill_ms, RZero) \/ RLt(tpot, RZero)
    THEN PerformanceMetrics(kv_tokens, OOM, OOM, OOM, OOM, OOM)
    ELSE LET ttft == ttft_s(prefill_ms, tpot, prompt_tokens)
             e2e_s == e2e_latency_s(prefill_ms, tpot, prompt_tokens, response_tokens)
             thr == IF RLt(RZero, e2e_s) THEN Num(RDiv(RInt(response_tokens), e2e_s))
                    ELSE OOM
         IN  PerformanceMetrics(kv_tokens, Num(prefill_ms), Num(tpot), Num(ttft),
                                Num(e2e_s), thr)

compute_metrics(self, model, gpu, prompt_tokens, response_tokens) ==
    LET kv_tokens == max_kv_tokens(self, gpu, model)
        prefill_ms == prefill_time_per_token_ms(self, model, gpu)
        tpot == tpot_ms(self, model, gpu)
    IN  IF kv_tokens.raised \/ prefill_ms.raised THEN Raise
        ELSE Ret(metrics_record(kv_tokens.val, prefill_ms.val, tpot.val,
                                prompt_tokens, response_tokens))

----------------------------------------------------------------------------
(* State: the engines, the descriptors handed to them, and the callers     *)

VARIABLES
    calcs,    \* the PerformanceCalculator objects, by index
    model,    \* the ModelSpec the callers pass
    gpu,      \* the GPUSpec the callers pass
    threads,  \* each caller: its position, the call it is in, its locals, its result
    args,     \* the arguments of a run of the CLI and of the web layer
    front     \* each front end: its position in its loops and its perf_rows

vars == <<calcs, model, gpu, threads, args, front>>

\* Bounds on the inputs the callers draw
MaxNumGpu == 2
MaxConcurrent == 1
MaxContext == 2
MaxTokens == 2

\* the prompt and response sizes the CLI takes by default
DefaultPrompt == 4096
DefaultResponse == 256

NoArgOps == {"kv_cache_size_per_token_gib", "weights_memory_gb", "max_kv_tokens",
             "prefill_time_per_token_ms", "tpot_ms"}
MemOps == {"total_memory_footprint_gb", "fits_memory"}

Idle == [pc |-> "idle", op |-> "none", eng |-> 1, c |-> 0, w |-> 0, p |-> 0, r |-> 0,
         kv_tokens |-> <<>>, prefill_ms |-> RZero, tpot |-> RZero, ret |-> Ret("none")]

Precisions == {PrecisionSpec(RInt(2), RInt(2)), PrecisionSpec(Frac(1, 2), RInt(1))}

Engines == {PerformanceCalculator(n, pr) : n \in -1..MaxNumGpu, pr \in Precisions}

Models == {
    ModelSpec(RInt(7), 4096, 32, 32, 32),         \* kv = 1/2048 GiB/token at kv_bytes = 2
    ModelSpec(RInt(7), 1048576, 1, 8, 32),        \* kv = 1 GiB/token at kv_bytes = 2
    ModelSpec(Frac(261, 100), 2304, 8, 4, 26),    \* grouped-query attention
    ModelSpec(RInt(7), 4096, 0, 8, 32),           \* n_heads = 0
    ModelSpec(RInt(0), 4096, 32, 0, 32),          \* no parameters, kv = 0
    ModelSpec(Frac(1, 2), 4096, 32, 8, -1),       \* kv < 0
    ModelSpec(RInt(7), 4096, 32, 32, -1),         \* kv < 0, one KV head per head
    ModelSpec(RInt(-1), 1048576, 1, 8, 32) }      \* negative parameter count

Gpus == {
    GPUSpec(RInt(121), 24, 300),
    GPUSpec(RInt(121), 16, 300),
    GPUSpec(RInt(121), 8, 300),
    GPUSpec(RInt(121), -1, 300),
    GPUSpec(RInt(0), 24, 300),
    GPUSpec(RInt(-1), 24, 300),
    GPUSpec(RInt(121), 24, 0),
    GPUSpec(Frac(1671, 2), 24, -1) }

\* no front end is running
NoArgs == [num_gpu |-> 1, precision |-> PrecisionSpec(RInt(2), RInt(2)), prompt |-> 0,
           response |-> 0, concurrency |-> 0, include_oom |-> FALSE,
           models |-> <<>>, gpus |-> <<>>]
NoFront == [f \in {"cli", "web"} |->
               [pc |-> "idle", i |-> 1, j |-> 1, perf_rows |-> <<>>, err |-> "none"]]

Init ==
    /\ \E e \in Engines : calcs = <<e>>
    /\ model \in Models
    /\ gpu \in Gpus
    /\ threads = <<Idle>>
    /\ args = NoArgs
    /\ front = NoFront

Free(t) == threads[t].pc \in {"idle", "done"}

\* a caller invokes an operation that takes only the descriptors
CallNoArg(t) ==
    /\ Free(t)
    /\ \E op \in NoArgOps, e \in DOMAIN calcs :
         threads' = [threads EXCEPT ![t] = [Idle EXCEPT !.pc = "called", !.op = op, !.eng = e]]
    /\ UNCHANGED <<calcs, model, gpu, args, front>>

\* a caller invokes total_memory_footprint_gb or fits_memory
CallMem(t, Cs, Ws) ==
    /\ Free(t)
    /\ \E op \in MemOps, e \in DOMAIN calcs, c \in Cs, w \in Ws :
         threads' = [threads EXCEPT ![t] =
                        [Idle EXCEPT !.pc = "called", !.op = op, !.eng = e, !.c = c, !.w = w]]
    /\ UNCHANGED <<calcs, model, gpu, args, front>>

\* a caller invokes compute_metrics
CallMetrics(t, Ps, Rs) ==
    /\ Free(t)
    /\ \E e \in DOMAIN calcs, p \in Ps, r \in Rs :
         threads' = [threads EXCEPT ![t] =
                        [Idle EXCEPT !.pc = "called", !.op = "compute_metrics", !.eng = e,
                                     !.p = p, !.r = r]]
    /\ UNCHANGED <<calcs, model, gpu, args, front>>

\* the body of an operation that is one return statement
Body(self, op, th) ==
    CASE op = "kv_cache_size_per_token_gib" -> kv_cache_size_per_token_gib(self, model)
      [] op = "weights_memory_gb" -> weights_memory_gb(self, model)
      [] op = "max_kv_tokens" -> max_kv_tokens(self, gpu, model)
      [] op = "prefill_time_per_token_ms" -> prefill_time_per_token_ms(self, model, gpu)
      [] op = "tpot_ms" -> tpot_ms(self, model, gpu)
      [] op = "total_memory_footprint_gb" -> total_memory_footprint_gb(self, model, th.c, th.w)
      [] op = "fits_memory" -> fits_memory(self, gpu, model, th.c, th.w)

Finish(t, out) == threads' = [threads EXCEPT ![t].pc = "done", ![t].ret = out]

\* Return that also stores the clamped device count back into the engine
Return_stores_num_gpu(t) ==
    /\ threads[t].pc = "called"
    /\ threads[t].op # "compute_metrics"
    /\ Finish(t, Body(calcs[threads[t].eng], threads[t].op, threads[t]))
    /\ calcs' = [calcs EXCEPT ![threads[t].eng].num_gpu = Max(1, @)]
    /\ UNCHANGED <<model, gpu, args, front>>

\* the called operation runs and returns (or raises)
Return(t) ==
    /\ threads[t].pc = "called"
    /\ threads[t].op # "compute_metrics"
    /\ Finish(t, Body(calcs[threads[t].eng], threads[t].op, threads[t]))
    /\ UNCHANGED <<calcs, model, gpu, args, front>>

\* line 88 that also stores the clamped device count back into the engine
Metrics88_stores_num_gpu(t) ==
    /\ threads[t].pc = "called"
    /\ threads[t].op = "compute_metrics"
    /\ LET kv == max_kv_tokens(calcs[threads[t].eng], gpu, model)
       IN  IF kv.raised THEN Finish(t, Raise)
           ELSE threads' = [threads EXCEPT ![t].pc = "L89", ![t].kv_tokens = kv.val]
    /\ calcs' = [calcs EXCEPT ![threads[t].eng].num_gpu = Max(1, @)]
    /\ UNCHANGED <<model, gpu, args, front>>

\* compute_metrics, line 88: kv_tokens = self.max_kv_tokens(gpu, model)
Metrics88(t) ==
    /\ threads[t].pc = "called"
    /\ threads[t].op = "compute_metrics"
    /\ LET kv == max_kv_tokens(calcs[threads[t].eng], gpu, model)
       IN  IF kv.raised THEN Finish(t, Raise)
           ELSE threads' = [threads EXCEPT ![t].pc = "L89", ![t].kv_tokens = kv.val]
    /\ UNCHANGED <<calcs, model, gpu, args, front>>

\* compute_metrics, line 89: prefill_ms = self.prefill_time_per_token_ms(model, gpu)
Metrics89(t) ==
    /\ threads[t].pc = "L89"
    /\ LET pre == prefill_time_per_token_ms(calcs[threads[t].eng], model, gpu)
       IN  IF pre.raised THEN Finish(t, Raise)
           ELSE threads' = [threads EXCEPT ![t].pc = "L90", ![t].prefill_ms = pre.val]
    /\ UNCHANGED <<calcs, model, gpu, args, front>>

\* line 90 that also stores the floored bandwidth back into the GPUSpec
Metrics90_stores_bandwidth(t) ==
    /\ threads[t].pc = "L90"
    /\ threads' = [threads EXCEPT ![t].pc = "L92",
                                  ![t].tpot = tpot_ms(calcs[threads[t].eng], model, gpu).val]
    /\ gpu' = [gpu EXCEPT !.memory_bandwidth_gbps = Max(1, @)]
    /\ UNCHANGED <<calcs, model, args, front>>

\* compute_metrics, line 90: tpot_ms = self.tpot_ms(model, gpu)
Metrics90(t) ==
    /\ threads[t].pc = "L90"
    /\ threads' = [threads EXCEPT ![t].pc = "L92",
                                  ![t].tpot = tpot_ms(calcs[threads[t].eng], model, gpu).val]
    /\ UNCHANGED <<calcs, model, gpu, args, front>>

\* lines 92-113 that answer the sentinel when the weights do not fit the devices
Metrics92_sentinel_over_capacity(t) ==
    /\ threads[t].pc = "L92"
    /\ IF fits_memory(calcs[threads[t].eng], gpu, model, 0, 0).val
       THEN Finish(t, Ret(metrics_record(threads[t].kv_tokens, threads[t].prefill_ms,
                                         threads[t].tpot, threads[t].p, threads[t].r)))
       ELSE Finish(t, Ret(PerformanceMetrics(threads[t].kv_tokens, OOM, OOM, OOM, OOM, OOM)))
    /\ UNCHANGED <<calcs, model, gpu, args, front>>

\* lines 92-113 that leave the capacity out of the sentinel record
Metrics92_sentinel_without_capacity(t) ==
    /\ threads[t].pc = "L92"
    /\ LET m == metrics_record(threads[t].kv_tokens, threads[t].prefill_ms,
                               threads[t].tpot, threads[t].p, threads[t].r)
       IN  Finish(t, Ret(IF m.tpot_ms.oom THEN [m EXCEPT !.kv_cache_tokens = <<>>] ELSE m))
    /\ UNCHANGED <<calcs, model, gpu, args, front>>

\* compute_metrics, lines 92-113: the sentinel test and the record returned
Metrics92(t) ==
    /\ threads[t].pc = "L92"
    /\ Finish(t, Ret(metrics_record(threads[t].kv_tokens, threads[t].prefill_ms,
                                    threads[t].tpot, threads[t].p, threads[t].r)))
    /\ UNCHANGED <<calcs, model, gpu, args, front>>

Next ==
    \/ \E t \in DOMAIN threads : CallNoArg(t)
    \/ \E t \in DOMAIN threads : CallMem(t, 0..MaxConcurrent, 0..MaxContext)
    \/ \E t \in DOMAIN threads : CallMetrics(t, 0..MaxTokens, 0..MaxTokens)
    \/ \E t \in DOMAIN threads : CallMetrics(t, {DefaultPrompt}, {DefaultResponse})
    \/ \E t \in DOMAIN threads : Return(t)
    \/ \E t \in DOMAIN threads : Metrics88(t)
    \/ \E t \in DOMAIN threads : Metrics89(t)
    \/ \E t \in DOMAIN threads : Metrics90(t)
    \/ \E t \in DOMAIN threads : Metrics92(t)

\* one caller, one engine, the full range of descriptors
Spec == Init /\ [][Next]_vars

----------------------------------------------------------------------------
(* Two callers sharing two engines and the descriptors                     *)

EnginesT == {PerformanceCalculator(0, PrecisionSpec(RInt(2), RInt(2))),
             PerformanceCalculator(2, PrecisionSpec(Frac(1, 2), RInt(1)))}

ModelsT == {ModelSpec(RInt(7), 4096, 32, 32, 32), ModelSpec(RInt(7), 1048576, 1, 8, 32)}

GpusT == {GPUSpec(RInt(121), 24, 300), GPUSpec(RInt(121), 8, 0)}

InitT ==
    /\ \E a \in EnginesT, b \in EnginesT : a.num_gpu < b.num_gpu /\ calcs = <<a, b>>
    /\ model \in ModelsT
    /\ gpu \in GpusT
    /\ threads = <<Idle, Idle>>
    /\ args = NoArgs
    /\ front = NoFront

NextT ==
    \/ \E t \in DOMAIN threads : CallNoArg(t)
    \/ \E t \in DOMAIN threads : CallMem(t, 1..MaxConcurrent, 1..MaxContext)
    \/ \E t \in DOMAIN threads : CallMetrics(t, {MaxTokens}, 0..MaxTokens)
    \/ \E t \in DOMAIN threads : Return(t)
    \/ \E t \in DOMAIN threads : Metrics88(t)
    \/ \E t \in DOMAIN threads : Metrics89(t)
    \/ \E t \in DOMAIN threads : Metrics90(t)
    \/ \E t \in DOMAIN threads : Metrics92(t)

SpecT == InitT /\ [][NextT]_vars

----------------------------------------------------------------------------
(* The two front ends: main of cli.py and compute of webui/server.py        *)

\* a rendered cell: a number printed with a fixed count of decimals (its
\* digits, rounded), "nan", or the text "OOM"
Cell(text, digits) == [text |-> text, digits |-> digits]

\* f"{x:.kf}" for x >= 0: the digits of x * 10^k rounded to the nearest integer
Fmt(x, k) == Cell("num", RFloor(RAdd(RMul(x, RInt(10 ^ k)), Frac(1, 2))))

\* f"{float('nan'):.2f}"
FmtNaN == Cell("nan", <<>>)

OOMCell == Cell("OOM", <<>>)

\* one dict of perf_rows; models and GPUs are named by their place in the lists
PerfRow(i, j, kv, pre, tpot, ttft, e2e, thr) ==
    [Model |-> i, GPU |-> j, Input |-> args.prompt, Output |-> args.response,
     Concurrent |-> args.concurrency, KV |-> kv, Prefill |-> pre, TPOT |-> tpot,
     TTFT |-> ttft, E2E |-> e2e, Throughput |-> thr]

\* the row both front ends build for a record with sentinel timing
sentinel_row(i, j, metrics) ==
    PerfRow(i, j, metrics.kv_cache_tokens, OOMCell, OOMCell, OOMCell, OOMCell, OOMCell)

\* to_perf_row of cli.py, on the arguments main passes: a sentinel throughput
\* goes in as NaN
to_perf_row(i, j, metrics) ==
    PerfRow(i, j, metrics.kv_cache_tokens,
            Fmt(metrics.prefill_time_per_token_ms.v, 3), Fmt(metrics.tpot_ms.v, 3),
            Fmt(metrics.ttft_s.v, 3), Fmt(metrics.e2e_latency_s.v, 1),
            IF metrics.throughput_tokens_per_s.oom THEN FmtNaN
            ELSE Fmt(metrics.throughput_tokens_per_s.v, 2))

\* the numeric row of compute; float("OOM") is handled by the caller
web_perf_row(i, j, metrics) ==
    PerfRow(i, j, metrics.kv_cache_tokens,
            Fmt(metrics.prefill_time_per_token_ms.v, 3), Fmt(metrics.tpot_ms.v, 3),
            Fmt(metrics.ttft_s.v, 3), Fmt(metrics.e2e_latency_s.v, 1),
            Fmt(metrics.throughput_tokens_per_s.v, 2))

\* the engine each front end constructs from the arguments
FrontCalc(f) == calcs[IF f = "cli" THEN 1 ELSE 2]

context_window == args.prompt + args.response

\* the front end stops with an exception
Crash(f, err) == front' = [front EXCEPT ![f].pc = "raised", ![f].err = err]

\* the loops go on to the next (model, GPU) pair, or end
Advance(f, rows) ==
    LET i == front[f].i
        j == front[f].j
        last == i = Len(args.models) /\ j = Len(args.gpus)
    IN  front' = [front EXCEPT ![f].perf_rows = rows,
                               ![f].pc = IF last THEN "done" ELSE "perf",
                               ![f].i = IF last \/ j < Len(args.gpus) THEN i ELSE i + 1,
                               ![f].j = IF last THEN j
                                        ELSE IF j < Len(args.gpus) THEN j + 1 ELSE 1]

\* the memory table: the per-token size and the footprint of every model
MemRows(f) ==
    /\ front[f].pc = "mem"
    /\ IF \E k \in DOMAIN args.models :
            total_memory_footprint_gb(FrontCalc(f), args.models[k], args.concurrency,
                                      context_window).raised
       THEN Crash(f, "ZeroDivisionError")
       ELSE front' = [front EXCEPT ![f].pc = IF args.models = <<>> \/ args.gpus = <<>>
                                             THEN "done" ELSE "perf"]
    /\ UNCHANGED <<calcs, model, gpu, threads, args>>

CliMemRows == MemRows("cli")

WebMemRows == MemRows("web")

\* one pass of main's performance loop that skips every pair that does not fit
CliPerfPair_ignores_include_oom ==
    /\ front["cli"].pc = "perf"
    /\ LET i == front["cli"].i
           j == front["cli"].j
           rows == front["cli"].perf_rows
           fits == fits_memory(calcs[1], args.gpus[j], args.models[i], args.concurrency,
                               context_window)
           metrics == compute_metrics(calcs[1], args.models[i], args.gpus[j],
                                      args.prompt, args.response)
       IN  IF fits.raised THEN Crash("cli", "ZeroDivisionError")
           ELSE IF ~fits.val THEN Advance("cli", rows)
           ELSE IF metrics.raised THEN Crash("cli", "ZeroDivisionError")
           ELSE IF metrics.val.prefill_time_per_token_ms.oom \/ metrics.val.tpot_ms.oom
           THEN Advance("cli", IF args.include_oom
                               THEN Append(rows, sentinel_row(i, j, metrics.val))
                               ELSE rows)
           ELSE Advance("cli", Append(rows, to_perf_row(i, j, metrics.val)))
    /\ UNCHANGED <<calcs, model, gpu, threads, args>>

\* cli.py, lines 168-209: one pass of main's loop over models and GPUs
CliPerfPair ==
    /\ front["cli"].pc = "perf"
    /\ LET i == front["cli"].i
           j == front["cli"].j
           rows == front["cli"].perf_rows
           fits == fits_memory(calcs[1], args.gpus[j], args.models[i], args.concurrency,
                               context_window)
           metrics == compute_metrics(calcs[1], args.models[i], args.gpus[j],
                                      args.prompt, args.response)
       IN  IF fits.raised THEN Crash("cli", "ZeroDivisionError")
           ELSE IF ~fits.val /\ ~args.include_oom THEN Advance("cli", rows)
           ELSE IF metrics.raised THEN Crash("cli", "ZeroDivisionError")
           ELSE IF metrics.val.prefill_time_per_token_ms.oom \/ metrics.val.tpot_ms.oom
           THEN Advance("cli", IF args.include_oom
                               THEN Append(rows, sentinel_row(i, j, metrics.val))
                               ELSE rows)
           ELSE Advance("cli", Append(rows, to_perf_row(i, j, metrics.val)))
    /\ UNCHANGED <<calcs, model, gpu, threads, args>>

\* server.py, lines 110-149: one pass of compute's loop over models and GPUs
WebPerfPair ==
    /\ front["web"].pc = "perf"
    /\ LET i == front["web"].i
           j == front["web"].j
           rows == front["web"].perf_rows
           fits == fits_memory(calcs[2], args.gpus[j], args.models[i], args.concurrency,
                               context_window)
           metrics == compute_metrics(calcs[2], args.models[i], args.gpus[j],
                                      args.prompt, args.response)
       IN  IF fits.raised THEN Crash("web", "ZeroDivisionError")
           ELSE IF ~fits.val /\ ~args.include_oom THEN Advance("web", rows)
           ELSE IF metrics.raised THEN Crash("web", "ZeroDivisionError")
           ELSE IF metrics.val.prefill_time_per_token_ms.oom \/ metrics.val.tpot_ms.oom
           THEN Advance("web", Append(rows, sentinel_row(i, j, metrics.val)))
           ELSE IF metrics.val.throughput_tokens_per_s.oom THEN Crash("web", "ValueError")
           ELSE Advance("web", Append(rows, web_perf_row(i, j, metrics.val)))
    /\ UNCHANGED <<calcs, model, gpu, threads, args>>

\* the lists of descriptors and the arguments of the runs
ModelListsR == {
    <<ModelSpec(RInt(7), 4096, 32, 32, 32), ModelSpec(RInt(70), 8192, 64, 8, 80)>>,
    <<ModelSpec(RInt(-1), 1048576, 1, 8, 32), ModelSpec(RInt(7), 4096, 32, 32, 32)>> }

GpuListsR == {
    <<GPUSpec(RInt(121), 24, 300), GPUSpec(RInt(362), 48, 864)>>,
    <<GPUSpec(RInt(-1), 24, 300), GPUSpec(RInt(121), 24, 300)>> }

ArgsR ==
    [num_gpu : 1..MaxNumGpu, precision : {PrecisionSpec(RInt(2), RInt(2))},
     prompt : {0, MaxTokens, DefaultPrompt}, response : {0, DefaultResponse},
     concurrency : {MaxConcurrent}, include_oom : BOOLEAN,
     models : ModelListsR, gpus : GpuListsR]

InitR ==
    /\ args \in ArgsR
    /\ calcs = <<PerformanceCalculator(args.num_gpu, args.precision),
                 PerformanceCalculator(args.num_gpu, args.precision)>>
    /\ model = args.models[1]
    /\ gpu = args.gpus[1]
    /\ threads = <<>>
    /\ front = [f \in {"cli", "web"} |->
                   [pc |-> "mem", i |-> 1, j |-> 1, perf_rows |-> <<>>, err |-> "none"]]

NextR ==
    \/ CliMemRows
    \/ WebMemRows
    \/ CliPerfPair
    \/ WebPerfPair

\* a run of the CLI and a run of the web layer on the same arguments
SpecR == InitR /\ [][NextR]_vars

----------------------------------------------------------------------------
(* Properties                                                              *)

Self(t) == calcs[threads[t].eng]
Done(t, op) == threads[t].pc = "done" /\ threads[t].op = op

\* num_gpu * gpu.memory_gb
Avail(self) == RMul(RInt(self.num_gpu), RInt(gpu.memory_gb))

FieldEq(a, b) == a.oom = b.oom /\ (~a.oom => REq(a.v, b.v))

TimingEq(a, b) ==
    /\ FieldEq(a.prefill_time_per_token_ms, b.prefill_time_per_token_ms)
    /\ FieldEq(a.tpot_ms, b.tpot_ms)
    /\ FieldEq(a.ttft_s, b.ttft_s)
    /\ FieldEq(a.e2e_latency_s, b.e2e_latency_s)
    /\ FieldEq(a.throughput_tokens_per_s, b.throughput_tokens_per_s)

MetricsEq(a, b) == a.kv_cache_tokens = b.kv_cache_tokens /\ TimingEq(a, b)

\* two outcomes of operation op are the same
SameResult(op, a, b) ==
    /\ a.raised = b.raised
    /\ ~a.raised =>
         CASE op = "compute_metrics" -> MetricsEq(a.val, b.val)
           [] op \in {"max_kv_tokens", "fits_memory"} -> a.val = b.val
           [] OTHER -> REq(a.val, b.val)

AllSentinel(m) ==
    /\ m.prefill_time_per_token_ms.oom /\ m.tpot_ms.oom /\ m.ttft_s.oom
    /\ m.e2e_latency_s.oom /\ m.throughput_tokens_per_s.oom

\* the call of thread t, run on its own in the current state
Alone(t) ==
    IF threads[t].op = "compute_metrics"
    THEN compute_metrics(Self(t), model, gpu, threads[t].p, threads[t].r)
    ELSE Body(Self(t), threads[t].op, threads[t])

\* C1: fits_memory returns true exactly when the total memory footprint is at
\* most num_gpu * gpu.memory_gb (true at equality), and raises only when the
\* footprint itself cannot be computed.
C1_FitsIffFootprintWithinMemory ==
    \A t \in DOMAIN threads :
        Done(t, "fits_memory") =>
            LET total == total_memory_footprint_gb(Self(t), model, threads[t].c, threads[t].w)
            IN  IF total.raised THEN threads[t].ret.raised
                ELSE /\ ~threads[t].ret.raised
                     /\ threads[t].ret.val <=> RLe(total.val, Avail(Self(t)))

\* C1 witness: a cache of positive size fills the memory exactly, and fits
C1_Witness ==
    \E t \in DOMAIN threads :
        /\ Done(t, "fits_memory")
        /\ ~threads[t].ret.raised
        /\ threads[t].ret.val
        /\ threads[t].c * threads[t].w > 0
        /\ RLt(RZero, kv_cache_size_per_token_gib(Self(t), model).val)
        /\ REq(total_memory_footprint_gb(Self(t), model, threads[t].c, threads[t].w).val,
               Avail(Self(t)))

\* C2 as claimed: max_kv_tokens is 0 when the per-token size is <= 0, and
\* otherwise tokens * per-token size <= num_gpu * memory_gb - weights, also
\* when the weights alone exceed the memory.
C2_TokensWithinMemoryLessWeights ==
    \A t \in DOMAIN threads :
        (Done(t, "max_kv_tokens") /\ ~threads[t].ret.raised) =>
            LET kv == kv_cache_size_per_token_gib(Self(t), model).val
                w == weights_memory_gb(Self(t), model).val
            IN  IF RLe(kv, RZero) THEN threads[t].ret.val = <<>>
                ELSE RLe(RMul(RNat(threads[t].ret.val), kv), RSub(Avail(Self(t)), w))

\* C2, amended: max_kv_tokens is 0 when the per-token size is <= 0, and
\* otherwise tokens * per-token size <= max(0, num_gpu * memory_gb - weights).
C2_TokensWithinUsableMemory ==
    \A t \in DOMAIN threads :
        (Done(t, "max_kv_tokens") /\ ~threads[t].ret.raised) =>
            LET kv == kv_cache_size_per_token_gib(Self(t), model).val
                w == weights_memory_gb(Self(t), model).val
            IN  IF RLe(kv, RZero) THEN threads[t].ret.val = <<>>
                ELSE RLe(RMul(RNat(threads[t].ret.val), kv),
                         RMax(RZero, RSub(Avail(Self(t)), w)))

\* C2 witness: the weights alone exceed the memory and the capacity is 0
C2_Witness ==
    \E t \in DOMAIN threads :
        /\ Done(t, "max_kv_tokens")
        /\ ~threads[t].ret.raised
        /\ threads[t].ret.val = <<>>
        /\ RLt(RZero, kv_cache_size_per_token_gib(Self(t), model).val)
        /\ RLt(RZero, Avail(Self(t)))
        /\ RLt(Avail(Self(t)), weights_memory_gb(Self(t), model).val)

\* C3: a record returned by compute_metrics has the sentinel in all five
\* timing/throughput fields if and only if the prefill time per token or the
\* TPOT of the engine's formulas is negative.
C3_AllSentinelIffNegativeTiming ==
    \A t \in DOMAIN threads :
        (Done(t, "compute_metrics") /\ ~threads[t].ret.raised) =>
            LET pre == prefill_time_per_token_ms(Self(t), model, gpu).val
                tp == tpot_ms(Self(t), model, gpu).val
            IN  AllSentinel(threads[t].ret.val) <=> (RLt(pre, RZero) \/ RLt(tp, RZero))

\* C3 witness: the all-sentinel record, returned for a negative TPOT alone
C3_Witness ==
    \E t \in DOMAIN threads :
        /\ Done(t, "compute_metrics")
        /\ ~threads[t].ret.raised
        /\ AllSentinel(threads[t].ret.val)
        /\ RLt(RZero, prefill_time_per_token_ms(Self(t), model, gpu).val)
        /\ RLt(tpot_ms(Self(t), model, gpu).val, RZero)

\* C4 as claimed: no operation of the engine raises, whatever the numeric
\* input (zero fp16_tflops, zero n_heads, zero bandwidth, zero num_gpu).
C4_NoOperationRaises ==
    \A t \in DOMAIN threads : threads[t].pc = "done" => ~threads[t].ret.raised

\* C5: with num_gpu < 1, prefill_time_per_token_ms and tpot_ms return what an
\* engine with num_gpu = 1 returns; tpot_ms never raises and
\* prefill_time_per_token_ms raises only for fp16_tflops = 0.
C5_DeviceCountBelowOneActsAsOne ==
    \A t \in DOMAIN threads :
        LET one == [Self(t) EXCEPT !.num_gpu = 1]
        IN  /\ (Done(t, "prefill_time_per_token_ms") /\ Self(t).num_gpu < 1) =>
                 /\ threads[t].ret.raised <=> (gpu.fp16_tflops.s = 0)
                 /\ SameResult("prefill_time_per_token_ms", threads[t].ret,
                               prefill_time_per_token_ms(one, model, gpu))
            /\ (Done(t, "tpot_ms") /\ Self(t).num_gpu < 1) =>
                 /\ ~threads[t].ret.raised
                 /\ SameResult("tpot_ms", threads[t].ret, tpot_ms(one, model, gpu))

\* C5 witness: a prefill time returned by an engine with num_gpu = 0
C5_Witness ==
    \E t \in DOMAIN threads :
        /\ Done(t, "prefill_time_per_token_ms")
        /\ Self(t).num_gpu = 0
        /\ ~threads[t].ret.raised
        /\ threads[t].ret.val.s # 0

\* C6: max_kv_tokens is the floor of max(0, num_gpu * memory_gb - weights)
\* divided by the per-token size when that size is > 0, and 0 otherwise: the
\* natural number k with k * size <= usable < (k + 1) * size.
C6_TokensAreFloorOfUsableOverSize ==
    \A t \in DOMAIN threads :
        (Done(t, "max_kv_tokens") /\ ~threads[t].ret.raised) =>
            LET kv == kv_cache_size_per_token_gib(Self(t), model).val
                w == weights_memory_gb(Self(t), model).val
                usable == RMax(RZero, RSub(Avail(Self(t)), w))
                k == threads[t].ret.val
            IN  IF RLt(RZero, kv)
                THEN /\ RLe(RMul(RNat(k), kv), usable)
                     /\ RLt(usable, RMul(RNat(NAdd(k, <<1>>)), kv))
                ELSE k = <<>>

\* C6 witness: a positive capacity that is not a whole quotient
C6_Witness ==
    \E t \in DOMAIN threads :
        /\ Done(t, "max_kv_tokens")
        /\ ~threads[t].ret.raised
        /\ threads[t].ret.val # <<>>
        /\ RLt(RMul(RNat(threads[t].ret.val), kv_cache_size_per_token_gib(Self(t), model).val),
               RSub(Avail(Self(t)), weights_memory_gb(Self(t), model).val))

\* C7: two calls of compute_metrics on the same engine with the same prompt
\* and response token counts give the same outcome, whatever is called on the
\* engines between them.
C7_SameInputsSameMetrics ==
    \A t1 \in DOMAIN threads, t2 \in DOMAIN threads :
        (/\ t1 # t2
         /\ Done(t1, "compute_metrics") /\ Done(t2, "compute_metrics")
         /\ threads[t1].eng = threads[t2].eng
         /\ threads[t1].p = threads[t2].p
         /\ threads[t1].r = threads[t2].r) =>
            SameResult("compute_metrics", threads[t1].ret, threads[t2].ret)

\* C7 witness: two records of the same call held side by side
C7_Witness ==
    /\ Done(1, "compute_metrics") /\ Done(2, "compute_metrics")
    /\ threads[1].eng = threads[2].eng
    /\ threads[1].p = threads[2].p /\ threads[1].r = threads[2].r
    /\ ~threads[1].ret.raised /\ ~threads[2].ret.raised
    /\ threads[1].ret.val.kv_cache_tokens # <<>>

\* C8: no step of any operation changes an engine's configuration or the
\* ModelSpec and GPUSpec passed to it.
C8_ConfigurationAndDescriptorsUnchanged ==
    [][calcs' = calcs /\ model' = model /\ gpu' = gpu]_vars

\* C8 witness: operations have completed on two engines of different
\* configurations
C8_Witness ==
    /\ threads[1].pc = "done" /\ threads[2].pc = "done"
    /\ threads[1].eng # threads[2].eng
    /\ calcs[1] # calcs[2]

\* C9: under any interleaving of the callers' steps, a completed call has the
\* outcome the same call has when run on its own.
C9_InterleavedCallsReturnAsAlone ==
    \A t \in DOMAIN threads :
        threads[t].pc = "done" => SameResult(threads[t].op, threads[t].ret, Alone(t))

\* C9 witness: a record returned to one caller while the other is inside
\* compute_metrics on the same engine
C9_Witness ==
    /\ Done(1, "compute_metrics") /\ ~threads[1].ret.raised
    /\ threads[2].pc = "L90" /\ threads[2].eng = threads[1].eng

\* some concurrency and context window of the callers' range does not fit
OverCapacity(self) ==
    \E c \in 0..MaxConcurrent, w \in 0..MaxContext :
        LET f == fits_memory(self, gpu, model, c, w) IN ~f.raised /\ ~f.val

NonNegativeTiming(self) ==
    /\ RLe(RZero, prefill_time_per_token_ms(self, model, gpu).val)
    /\ RLe(RZero, tpot_ms(self, model, gpu).val)

\* C10 as claimed: over capacity, with prefill time and TPOT non-negative,
\* every timing and throughput field of the record is numeric.
C10_OverCapacityAllNumeric ==
    \A t \in DOMAIN threads :
        (/\ Done(t, "compute_metrics") /\ ~threads[t].ret.raised
         /\ OverCapacity(Self(t)) /\ NonNegativeTiming(Self(t))) =>
            LET m == threads[t].ret.val
            IN  /\ ~m.prefill_time_per_token_ms.oom /\ ~m.tpot_ms.oom
                /\ ~m.ttft_s.oom /\ ~m.e2e_latency_s.oom
                /\ ~m.throughput_tokens_per_s.oom

\* the device memories the comparison of C10 ranges over
OtherMemories == {-1, 0, 8, 1000}

\* C10, amended: over capacity, with prefill time and TPOT non-negative,
\* prefill, TPOT, TTFT and end-to-end latency are numeric and the throughput
\* is numeric exactly when the end-to-end latency is positive; and the five
\* fields of any record are those returned for any other gpu.memory_gb.
C10_TimingIgnoresCapacity ==
    \A t \in DOMAIN threads :
        (Done(t, "compute_metrics") /\ ~threads[t].ret.raised) =>
            LET m == threads[t].ret.val
            IN  /\ (OverCapacity(Self(t)) /\ NonNegativeTiming(Self(t))) =>
                     /\ ~m.prefill_time_per_token_ms.oom /\ ~m.tpot_ms.oom
                     /\ ~m.ttft_s.oom /\ ~m.e2e_latency_s.oom
                     /\ ~m.throughput_tokens_per_s.oom <=> RLt(RZero, m.e2e_latency_s.v)
                /\ \A mem \in OtherMemories :
                     LET other == compute_metrics(Self(t), model,
                                                  [gpu EXCEPT !.memory_gb = mem],
                                                  threads[t].p, threads[t].r)
                     IN  ~other.raised /\ TimingEq(m, other.val)

\* C10 witness: a numeric record for a model whose weights exceed the memory
C10_Witness ==
    \E t \in DOMAIN threads :
        /\ Done(t, "compute_metrics") /\ ~threads[t].ret.raised
        /\ RLt(Avail(Self(t)), weights_memory_gb(Self(t), model).val)
        /\ ~threads[t].ret.val.throughput_tokens_per_s.oom
        /\ RLt(RZero, threads[t].ret.val.throughput_tokens_per_s.v)

\* the three quantities of C11 and the rest of the inputs, all positive but
\* the one named
PositiveBut(self, what) ==
    /\ self.num_gpu >= 1
    /\ self.precision.weight_bytes.s = 1 /\ self.precision.kv_bytes.s = 1
    /\ model.d_model > 0 /\ model.n_heads > 0 /\ model.n_kv_heads > 0 /\ model.n_layers > 0
    /\ gpu.memory_gb > 0
    /\ model.params_billion.s = (IF what = "params_billion" THEN -1 ELSE 1)
    /\ gpu.fp16_tflops.s = (IF what = "fp16_tflops" THEN -1 ELSE 1)
    /\ Sgn(gpu.memory_bandwidth_gbps) = (IF what = "memory_bandwidth_gbps" THEN -1 ELSE 1)

\* C11 as claimed: a negative params_billion, a negative gpu.fp16_tflops or a
\* negative gpu.memory_bandwidth_gbps, each alone with the other inputs
\* positive, makes compute_metrics return the sentinel in all five
\* timing/throughput fields.
C11_PathologicalInputGivesSentinel ==
    \A t \in DOMAIN threads :
        (/\ Done(t, "compute_metrics")
         /\ \E what \in {"params_billion", "fp16_tflops", "memory_bandwidth_gbps"} :
                PositiveBut(Self(t), what)) =>
            /\ ~threads[t].ret.raised
            /\ AllSentinel(threads[t].ret.val)

\* the engine of thread t with another device count and weight precision
OtherWeightBytes == {Frac(1, 2), RInt(4)}

Reconfigured(self) ==
    {PerformanceCalculator(n, PrecisionSpec(wb, self.precision.kv_bytes)) :
        n \in -1..MaxNumGpu, wb \in OtherWeightBytes}

\* C12: kv_cache_size_per_token_gib returns the number s with
\* s * n_heads * 2^30 = 2 * n_layers * n_kv_heads * d_model * kv_bytes (it has
\* no value, and the call raises, for n_heads = 0), the same for every
\* weight_bytes and num_gpu; for the Scenario A model at kv_bytes = 2 it is
\* 2^19 / 2^30 = 1/2048.
C12_KvSizePerTokenFormula ==
    \A t \in DOMAIN threads :
        Done(t, "kv_cache_size_per_token_gib") =>
            IF model.n_heads = 0 THEN threads[t].ret.raised
            ELSE /\ ~threads[t].ret.raised
                 /\ REq(RMul(RMul(threads[t].ret.val, RInt(model.n_heads)), RInt(2 ^ 30)),
                        RMul(RMul(RMul(RMul(RInt(2), RInt(model.n_layers)),
                                       RInt(model.n_kv_heads)),
                                  RInt(model.d_model)),
                             Self(t).precision.kv_bytes))
                 /\ \A other \in Reconfigured(Self(t)) :
                        SameResult("kv_cache_size_per_token_gib", threads[t].ret,
                                   kv_cache_size_per_token_gib(other, model))
                 /\ (/\ model.d_model = 4096 /\ model.n_heads = 32 /\ model.n_kv_heads = 32
                     /\ model.n_layers = 32 /\ REq(Self(t).precision.kv_bytes, RInt(2))) =>
                        REq(threads[t].ret.val, Frac(2 ^ 19, 2 ^ 30))

\* C12 witness: a positive size returned for a grouped-query model
C12_Witness ==
    \E t \in DOMAIN threads :
        /\ Done(t, "kv_cache_size_per_token_gib")
        /\ ~threads[t].ret.raised
        /\ threads[t].ret.val.s = 1
        /\ 0 < model.n_kv_heads /\ model.n_kv_heads < model.n_heads

\* the KV element widths the comparison of C13 ranges over
OtherKvBytes == {Frac(1, 2), RInt(1), RInt(2), RInt(4)}

WithKvBytes(self, kb) ==
    PerformanceCalculator(self.num_gpu, PrecisionSpec(self.precision.weight_bytes, kb))

\* the size returned to thread t is ordered as the KV element widths are,
\* against every other width
MonotoneInKvBytes(t) ==
    \A kb \in OtherKvBytes :
        LET other == kv_cache_size_per_token_gib(WithKvBytes(Self(t), kb), model).val
        IN  /\ RLe(kb, Self(t).precision.kv_bytes) => RLe(other, threads[t].ret.val)
            /\ RLe(Self(t).precision.kv_bytes, kb) => RLe(threads[t].ret.val, other)

\* C13 as claimed: for any model with n_kv_heads = n_heads,
\* kv_cache_size_per_token_gib is non-decreasing in kv_bytes.
C13_KvSizeMonotoneInKvBytes ==
    \A t \in DOMAIN threads :
        (/\ Done(t, "kv_cache_size_per_token_gib") /\ ~threads[t].ret.raised
         /\ model.n_kv_heads = model.n_heads) =>
            MonotoneInKvBytes(t)

\* C13, amended: for any model with n_kv_heads = n_heads and
\* n_layers * d_model >= 0, kv_cache_size_per_token_gib is non-decreasing in
\* kv_bytes.
C13_KvSizeMonotoneForNonNegativeLayers ==
    \A t \in DOMAIN threads :
        (/\ Done(t, "kv_cache_size_per_token_gib") /\ ~threads[t].ret.raised
         /\ model.n_kv_heads = model.n_heads
         /\ model.n_layers * model.d_model >= 0) =>
            MonotoneInKvBytes(t)

\* C13 witness: a size that is strictly larger than that of a narrower KV
\* element, for a model with as many KV heads as heads
C13_Witness ==
    \E t \in DOMAIN threads :
        /\ Done(t, "kv_cache_size_per_token_gib") /\ ~threads[t].ret.raised
        /\ model.n_kv_heads = model.n_heads
        /\ model.n_layers * model.d_model > 0
        /\ RLt(kv_cache_size_per_token_gib(WithKvBytes(Self(t), Frac(1, 2)), model).val,
               threads[t].ret.val)

\* the ModelSpec with its size_gb field set
OtherSizes == {0, 14, 110}

WithSizeGb(m, size) ==
    [f \in DOMAIN m \cup {"size_gb"} |-> IF f = "size_gb" THEN RInt(size) ELSE m[f]]

\* C14: weights_memory_gb never raises and returns params_billion *
\* weight_bytes (the number whose quotient by weight_bytes is params_billion),
\* the same for every kv_bytes, num_gpu and size_gb; 14 for params_billion = 7
\* and weight_bytes = 2.
C14_WeightsAreParamsTimesWeightBytes ==
    \A t \in DOMAIN threads :
        Done(t, "weights_memory_gb") =>
            LET wb == Self(t).precision.weight_bytes
            IN  /\ ~threads[t].ret.raised
                /\ IF wb.s = 0 THEN threads[t].ret.val.s = 0
                   ELSE REq(RDiv(threads[t].ret.val, wb), model.params_billion)
                /\ \A n \in -1..MaxNumGpu, kb \in OtherKvBytes, size \in OtherSizes :
                       SameResult("weights_memory_gb", threads[t].ret,
                                  weights_memory_gb(
                                      PerformanceCalculator(n, PrecisionSpec(wb, kb)),
                                      WithSizeGb(model, size)))
                /\ (REq(model.params_billion, RInt(7)) /\ REq(wb, RInt(2))) =>
                       REq(threads[t].ret.val, RInt(14))

\* C14 witness: a weight memory returned under a precision whose two widths
\* differ
C14_Witness ==
    \E t \in DOMAIN threads :
        /\ Done(t, "weights_memory_gb") /\ ~threads[t].ret.raised
        /\ threads[t].ret.val.s = 1
        /\ ~REq(Self(t).precision.weight_bytes, Self(t).precision.kv_bytes)

\* C15: total_memory_footprint_gb returns the number whose excess over
\* weights_memory_gb is kv_cache_size_per_token_gib * (W * C), the GiB figure
\* taken as GB unchanged, hence weights_memory_gb itself for C = 0 or W = 0;
\* it raises exactly when the per-token size has no value (n_heads = 0).
C15_FootprintIsCachePlusWeights ==
    \A t \in DOMAIN threads :
        Done(t, "total_memory_footprint_gb") =>
            LET kv == kv_cache_size_per_token_gib(Self(t), model)
                weights == weights_memory_gb(Self(t), model).val
            IN  IF kv.raised THEN threads[t].ret.raised
                ELSE /\ ~threads[t].ret.raised
                     /\ REq(RSub(threads[t].ret.val, weights),
                            RMul(kv.val, RInt(threads[t].w * threads[t].c)))
                     /\ (threads[t].c = 0 \/ threads[t].w = 0) =>
                            REq(threads[t].ret.val, weights)

\* C15 witness: a footprint above the weights, for a positive concurrency and
\* context window
C15_Witness ==
    \E t \in DOMAIN threads :
        /\ Done(t, "total_memory_footprint_gb") /\ ~threads[t].ret.raised
        /\ threads[t].c > 0 /\ threads[t].w > 1
        /\ RLt(weights_memory_gb(Self(t), model).val, threads[t].ret.val)

\* C16: tpot_ms never raises and returns the number t with
\* t * max(1, num_gpu) * b = 2 * params_billion * 1000, where b is the
\* bandwidth when it is above 1e-9 and 1e-9 when it is zero or negative.
C16_TpotFormulaWithBandwidthFloor ==
    \A t \in DOMAIN threads :
        Done(t, "tpot_ms") =>
            LET n == IF Self(t).num_gpu >= 1 THEN Self(t).num_gpu ELSE 1
                b == IF gpu.memory_bandwidth_gbps >= 1 THEN RInt(gpu.memory_bandwidth_gbps)
                     ELSE Frac(1, 10 ^ 9)
            IN  /\ ~threads[t].ret.raised
                /\ REq(RMul(RMul(threads[t].ret.val, RInt(n)), b),
                       RMul(RInt(2000), model.params_billion))

\* C16 witness: a TPOT returned for a bandwidth of zero
C16_Witness ==
    \E t \in DOMAIN threads :
        /\ Done(t, "tpot_ms") /\ ~threads[t].ret.raised
        /\ gpu.memory_bandwidth_gbps = 0
        /\ threads[t].ret.val.s = 1

\* C17: for a nonzero fp16_tflops, prefill_time_per_token_ms returns the
\* number q with q * max(1, num_gpu) * fp16_tflops = 2 * params_billion, and
\* for num_gpu = n >= 1 n times that number is the value of one device.
C17_PrefillFormulaAndEvenSharding ==
    \A t \in DOMAIN threads :
        (Done(t, "prefill_time_per_token_ms") /\ gpu.fp16_tflops.s # 0) =>
            LET n == IF Self(t).num_gpu >= 1 THEN Self(t).num_gpu ELSE 1
                one == [Self(t) EXCEPT !.num_gpu = 1]
            IN  /\ ~threads[t].ret.raised
                /\ REq(RMul(RMul(threads[t].ret.val, RInt(n)), gpu.fp16_tflops),
                       RMul(RInt(2), model.params_billion))
                /\ Self(t).num_gpu >= 1 =>
                       REq(RMul(threads[t].ret.val, RInt(Self(t).num_gpu)),
                           prefill_time_per_token_ms(one, model, gpu).val)

\* C17 witness: a positive prefill time returned by an engine of several
\* devices
C17_Witness ==
    \E t \in DOMAIN threads :
        /\ Done(t, "prefill_time_per_token_ms") /\ ~threads[t].ret.raised
        /\ Self(t).num_gpu >= 2
        /\ threads[t].ret.val.s = 1

\* C18: in every record of compute_metrics whose ttft_s is numeric,
\* ttft_s * 1000 = prompt_tokens * prefill time + TPOT, and ttft_s is the same
\* for every response_tokens.
C18_TtftIsPrefillPlusOneDecode ==
    \A t \in DOMAIN threads :
        (/\ Done(t, "compute_metrics") /\ ~threads[t].ret.raised
         /\ ~threads[t].ret.val.ttft_s.oom) =>
            LET pre == prefill_time_per_token_ms(Self(t), model, gpu).val
                tp == tpot_ms(Self(t), model, gpu).val
            IN  /\ REq(RMul(threads[t].ret.val.ttft_s.v, RInt(1000)),
                       RAdd(RMul(RInt(threads[t].p), pre), tp))
                /\ \A r \in 0..MaxTokens :
                       FieldEq(threads[t].ret.val.ttft_s,
                               compute_metrics(Self(t), model, gpu, threads[t].p, r).val.ttft_s)

\* C18 witness: a positive TTFT of a prompt of several tokens with no
\* response token, the decode step included
C18_Witness ==
    \E t \in DOMAIN threads :
        /\ Done(t, "compute_metrics") /\ ~threads[t].ret.raised
        /\ ~threads[t].ret.val.ttft_s.oom
        /\ threads[t].p >= 2 /\ threads[t].r = 0
        /\ RLt(RZero, threads[t].ret.val.prefill_time_per_token_ms.v)
        /\ RLt(RZero, threads[t].ret.val.tpot_ms.v)

\* C19: in every record of compute_metrics whose e2e_latency_s is numeric,
\* e2e_latency_s * 1000 = prompt_tokens * prefill time + response_tokens * TPOT.
C19_LatencyIsPrefillPlusDecodePerToken ==
    \A t \in DOMAIN threads :
        (/\ Done(t, "compute_metrics") /\ ~threads[t].ret.raised
         /\ ~threads[t].ret.val.e2e_latency_s.oom) =>
            LET pre == prefill_time_per_token_ms(Self(t), model, gpu).val
                tp == tpot_ms(Self(t), model, gpu).val
            IN  REq(RMul(threads[t].ret.val.e2e_latency_s.v, RInt(1000)),
                    RAdd(RMul(RInt(threads[t].p), pre), RMul(RInt(threads[t].r), tp)))

\* C19 witness: a positive latency of several prompt tokens and several
\* response tokens
C19_Witness ==
    \E t \in DOMAIN threads :
        /\ Done(t, "compute_metrics") /\ ~threads[t].ret.raised
        /\ ~threads[t].ret.val.e2e_latency_s.oom
        /\ threads[t].p >= 2 /\ threads[t].r >= 2
        /\ RLt(RZero, threads[t].ret.val.prefill_time_per_token_ms.v)
        /\ RLt(RZero, threads[t].ret.val.tpot_ms.v)

\* C20: when prefill time and TPOT are non-negative, the record of
\* compute_metrics has a numeric e2e_latency_s, and its throughput is the
\* number h with h * e2e_latency_s = response_tokens if e2e_latency_s > 0 and
\* the sentinel if e2e_latency_s <= 0.
C20_ThroughputOrSentinel ==
    \A t \in DOMAIN threads :
        (/\ Done(t, "compute_metrics") /\ ~threads[t].ret.raised
         /\ NonNegativeTiming(Self(t))) =>
            LET m == threads[t].ret.val
            IN  /\ ~m.e2e_latency_s.oom
                /\ IF RLt(RZero, m.e2e_latency_s.v)
                   THEN /\ ~m.throughput_tokens_per_s.oom
                        /\ REq(RMul(m.throughput_tokens_per_s.v, m.e2e_latency_s.v),
                               RInt(threads[t].r))
                   ELSE m.throughput_tokens_per_s.oom

\* C20 witness: the sentinel throughput of a model without parameters, for
\* a prompt and a response that are not empty
C20_Witness ==
    \E t \in DOMAIN threads :
        /\ Done(t, "compute_metrics") /\ ~threads[t].ret.raised
        /\ model.params_billion.s = 0
        /\ threads[t].p >= 1 /\ threads[t].r >= 1
        /\ ~threads[t].ret.val.e2e_latency_s.oom
        /\ threads[t].ret.val.throughput_tokens_per_s.oom

\* x is a / 10^k when rounded to k decimals
Rounds(x, a, k) ==
    /\ RLe(Frac(2 * a - 1, 2 * 10 ^ k), x)
    /\ RLt(x, Frac(2 * a + 1, 2 * 10 ^ k))

\* the engine of one device, the 7-billion-parameter model, the GPU of 121
\* TFLOPS and 300 GB/s, a prompt of 4096 tokens and a response of 256
ScenarioB(t) ==
    /\ Done(t, "compute_metrics") /\ ~threads[t].ret.raised
    /\ Self(t).num_gpu = 1
    /\ REq(model.params_billion, RInt(7))
    /\ REq(gpu.fp16_tflops, RInt(121)) /\ gpu.memory_bandwidth_gbps = 300
    /\ threads[t].p = 4096 /\ threads[t].r = 256

\* prefill 0.1157 ms, TPOT 46.667 ms, TTFT 0.5206 s, throughput 20.6 tokens/s
ScenarioBOtherFields(m) ==
    /\ ~m.prefill_time_per_token_ms.oom /\ Rounds(m.prefill_time_per_token_ms.v, 1157, 4)
    /\ ~m.tpot_ms.oom /\ Rounds(m.tpot_ms.v, 46667, 3)
    /\ ~m.ttft_s.oom /\ Rounds(m.ttft_s.v, 5206, 4)
    /\ ~m.throughput_tokens_per_s.oom /\ Rounds(m.throughput_tokens_per_s.v, 206, 1)

\* C21 as claimed: in Scenario B the record rounds to prefill 0.1157 ms, TPOT
\* 46.667 ms, TTFT 0.5206 s, end-to-end latency 12.423 s and throughput 20.6
\* tokens/s.
C21_ScenarioBAsStated ==
    \A t \in DOMAIN threads :
        ScenarioB(t) =>
            /\ ScenarioBOtherFields(threads[t].ret.val)
            /\ ~threads[t].ret.val.e2e_latency_s.oom
            /\ Rounds(threads[t].ret.val.e2e_latency_s.v, 12423, 3)

\* C21, amended: in Scenario B the record rounds to prefill 0.1157 ms, TPOT
\* 46.667 ms, TTFT 0.5206 s, end-to-end latency 12.421 s and throughput 20.6
\* tokens/s.
C21_ScenarioBLatency12421 ==
    \A t \in DOMAIN threads :
        ScenarioB(t) =>
            /\ ScenarioBOtherFields(threads[t].ret.val)
            /\ ~threads[t].ret.val.e2e_latency_s.oom
            /\ Rounds(threads[t].ret.val.e2e_latency_s.v, 12421, 3)

\* C21 witness: the record of Scenario B
C21_Witness ==
    \E t \in DOMAIN threads :
        ScenarioB(t) /\ RLt(RInt(12), threads[t].ret.val.e2e_latency_s.v)

\* C22: the kv_cache_tokens of every record compute_metrics returns, sentinel
\* or numeric, is what max_kv_tokens returns for the engine, GPU and model,
\* whatever the prompt and response token counts.
C22_RecordCarriesMaxKvTokens ==
    \A t \in DOMAIN threads :
        (Done(t, "compute_metrics") /\ ~threads[t].ret.raised) =>
            LET kv == max_kv_tokens(Self(t), gpu, model)
            IN  ~kv.raised /\ threads[t].ret.val.kv_cache_tokens = kv.val

\* C22 witness: an all-sentinel record with a positive capacity
C22_Witness ==
    \E t \in DOMAIN threads :
        /\ Done(t, "compute_metrics") /\ ~threads[t].ret.raised
        /\ AllSentinel(threads[t].ret.val)
        /\ threads[t].ret.val.kv_cache_tokens # <<>>
        /\ threads[t].p > 0 /\ threads[t].r > 0

\* C24: for a per-token size > 0, fits_memory(gpu, model, C, W) implies
\* C * W <= max_kv_tokens(gpu, model); C * W <= max_kv_tokens(gpu, model)
\* implies fits_memory when the weights are within num_gpu * memory_gb; and
\* when the weights exceed it max_kv_tokens is 0 and fits_memory is false.
C24_FitAgreesWithCapacity ==
    \A t \in DOMAIN threads :
        (/\ Done(t, "fits_memory") /\ ~threads[t].ret.raised
         /\ RLt(RZero, kv_cache_size_per_token_gib(Self(t), model).val)) =>
            LET fits == threads[t].ret.val
                tokens == max_kv_tokens(Self(t), gpu, model).val
                within == NCmp(NFromInt(threads[t].c * threads[t].w), tokens) <= 0
                weights == weights_memory_gb(Self(t), model).val
            IN  /\ fits => within
                /\ (within /\ RLe(weights, Avail(Self(t)))) => fits
                /\ RLt(Avail(Self(t)), weights) => (tokens = <<>> /\ ~fits)

\* C24 witness: a cache of C * W > 0 tokens, below the capacity, that fits
C24_Witness ==
    \E t \in DOMAIN threads :
        /\ Done(t, "fits_memory") /\ ~threads[t].ret.raised
        /\ threads[t].ret.val
        /\ threads[t].c * threads[t].w > 0
        /\ RLt(RZero, kv_cache_size_per_token_gib(Self(t), model).val)
        /\ NCmp(NFromInt(threads[t].c * threads[t].w),
                max_kv_tokens(Self(t), gpu, model).val) < 0

\* C25: the throughput of a record is the sentinel exactly when the prefill
\* time is negative, the TPOT is negative or prompt_tokens * prefill +
\* response_tokens * TPOT is not positive; in the last case alone the other
\* four fields are numeric.
C25_ThroughputSentinelAlone ==
    \A t \in DOMAIN threads :
        (Done(t, "compute_metrics") /\ ~threads[t].ret.raised) =>
            LET m == threads[t].ret.val
                pre == prefill_time_per_token_ms(Self(t), model, gpu).val
                tp == tpot_ms(Self(t), model, gpu).val
                negative == RLt(pre, RZero) \/ RLt(tp, RZero)
                total == RAdd(RMul(RInt(threads[t].p), pre), RMul(RInt(threads[t].r), tp))
            IN  /\ m.throughput_tokens_per_s.oom <=> (negative \/ RLe(total, RZero))
                /\ (~negative /\ RLe(total, RZero)) =>
                       /\ ~m.prefill_time_per_token_ms.oom /\ ~m.tpot_ms.oom
                       /\ ~m.ttft_s.oom /\ ~m.e2e_latency_s.oom
                       /\ m.throughput_tokens_per_s.oom

\* C25 witness: a sentinel throughput next to a positive TTFT
C25_Witness ==
    \E t \in DOMAIN threads :
        /\ Done(t, "compute_metrics") /\ ~threads[t].ret.raised
        /\ threads[t].ret.val.throughput_tokens_per_s.oom
        /\ ~threads[t].ret.val.ttft_s.oom
        /\ RLt(RZero, threads[t].ret.val.ttft_s.v)

\* the precisions the comparison of C27 ranges over
OtherPrecisions == Precisions \cup {PrecisionSpec(RInt(4), RInt(4))}

\* C27: the five timing and throughput fields of a record are those an
\* engine of the same num_gpu returns under any other precision, for the same
\* model, GPU, prompt and response.
C27_TimingIgnoresPrecision ==
    \A t \in DOMAIN threads :
        (Done(t, "compute_metrics") /\ ~threads[t].ret.raised) =>
            \A pr \in OtherPrecisions :
                LET other == compute_metrics(PerformanceCalculator(Self(t).num_gpu, pr),
                                             model, gpu, threads[t].p, threads[t].r)
                IN  ~other.raised /\ TimingEq(threads[t].ret.val, other.val)

\* C27 witness: a numeric record whose capacity is not the capacity under
\* another precision
C27_Witness ==
    \E t \in DOMAIN threads :
        /\ Done(t, "compute_metrics") /\ ~threads[t].ret.raised
        /\ ~threads[t].ret.val.throughput_tokens_per_s.oom
        /\ \E pr \in OtherPrecisions :
              threads[t].ret.val.kv_cache_tokens #
                  max_kv_tokens(PerformanceCalculator(Self(t).num_gpu, pr), gpu, model).val

\* the (model, GPU) places of the rows of a table, in the table's order
Pairs(rows) == [k \in DOMAIN rows |-> <<rows[k].Model, rows[k].GPU>>]

\* every pair of the selected lists once, model-major, then in GPU order
AllPairs ==
    [k \in 1..(Len(args.models) * Len(args.gpus)) |->
        <<((k - 1) \div Len(args.gpus)) + 1, ((k - 1) % Len(args.gpus)) + 1>>]

\* fits_memory for the pair, at the requested concurrency and prompt + response
FitsPair(pair) ==
    fits_memory(PerformanceCalculator(args.num_gpu, args.precision), args.gpus[pair[2]],
                args.models[pair[1]], args.concurrency, args.prompt + args.response).val

\* C23: in the performance table main has built, without include_oom every
\* row is of a pair that fits and no pair has two rows; with include_oom the
\* rows are of every pair of the lists, once each, model-major then in GPU
\* order.
C23_CliRowsByFitAndIncludeOom ==
    front["cli"].pc = "done" =>
        LET pairs == Pairs(front["cli"].perf_rows)
        IN  IF args.include_oom THEN pairs = AllPairs
            ELSE /\ \A k \in DOMAIN pairs : FitsPair(pairs[k])
                 /\ \A k1 \in DOMAIN pairs, k2 \in DOMAIN pairs :
                        k1 # k2 => pairs[k1] # pairs[k2]

\* C23 witness: a finished table with include_oom that has the row of a pair
\* that does not fit, after the row of one that fits
C23_Witness ==
    /\ front["cli"].pc = "done"
    /\ args.include_oom
    /\ Len(front["cli"].perf_rows) = 4
    /\ \E k \in 2..4 : /\ ~FitsPair(Pairs(front["cli"].perf_rows)[k])
                        /\ FitsPair(Pairs(front["cli"].perf_rows)[k - 1])

\* C26 as claimed: on the same arguments main and compute both finish without
\* raising and with the same sequence of performance rows.
C26_FrontEndsBuildSameRows ==
    (front["cli"].pc \in {"done", "raised"} /\ front["web"].pc \in {"done", "raised"}) =>
        /\ front["cli"].pc = "done"
        /\ front["web"].pc = "done"
        /\ front["cli"].perf_rows = front["web"].perf_rows

====
